---- MODULE Spec2Model ----
(***************************************************************************)
(* Model of tvm::script::printer::DocPrinter                               *)
(* (src/script/printer/base_doc_printer.cc): the constructor, Append,      *)
(* GetString and the PrintDoc type cascade.  The per-kind PrintTypedDoc    *)
(* overloads are pure virtual in this file; they are modelled as a         *)
(* renderer that writes the node's opening text, dispatches the node's     *)
(* children in order through PrintDoc, and writes the node's closing text. *)
(* Text is a sequence of one-character strings.                            *)
(***************************************************************************)
EXTENDS Integers, Sequences, FiniteSets, TLC

\* output_[p]         the text accumulated in printer p's stream (output_.str())
\* indent_spaces_[p]  the indentation width given to p's constructor
\* stack[p]           p's active PrintDoc / PrintTypedDoc calls, innermost last
\* status[p]          "idle" (no Append in progress), "running", or "fatal"
\* diag[p]            the message of LOG(FATAL), empty before it
\* calls[p]           the PrintTypedDoc calls PrintDoc has made, in order
\* appended[p]        the documents handed to Append, in order
\* returned[p]        the text of the last GetString and the number of
\*                    documents that had been appended when it was called
VARIABLES output_, indent_spaces_, stack, status, diag, calls, appended, returned

vars == <<output_, indent_spaces_, stack, status, diag, calls, appended, returned>>

(* ---------------------------------------------------------------- bounds *)
MaxAppends == 2
MaxBufLen == 4

(* ------------------------------------------------------------- documents *)
NL == "\n"

Alphabet == {"x", "1", NL}

IndentChoices == {2, 4}

OnePrinter == {1}

TwoPrinters == {1, 2}

\* The closed set of node kinds of the document vocabulary.
ClosedKindSet ==
  {"LiteralDoc", "IdDoc", "AttrAccessDoc", "IndexDoc", "OperationDoc", "CallDoc",
   "LambdaDoc", "ListDoc", "TupleDoc", "DictDoc", "SliceDoc", "StmtBlockDoc",
   "AssignDoc", "IfDoc", "WhileDoc", "ForDoc", "ScopeDoc", "ExprStmtDoc",
   "AssertDoc", "ReturnDoc", "FunctionDoc", "ClassDoc"}

Leaf(k, t) == [type_key |-> k, text |-> t, children |-> <<>>, close |-> <<>>]

Tree(k, t, cs, c) == [type_key |-> k, text |-> t, children |-> cs, close |-> c]

\* The type cascade of PrintDoc, in source order: <<node type tested by
\* doc.as<...>(), reference type handed to PrintTypedDoc>>.
ArmsCopyPaste ==
  << <<"LiteralDoc", "LiteralDoc">>, <<"IdDoc", "IdDoc">>,
     <<"AttrAccessDoc", "AttrAccessDoc">>, <<"IndexDoc", "IndexDoc">>,
     <<"OperationDoc", "OperationDoc">>, <<"CallDoc", "CallDoc">>,
     <<"LambdaDoc", "LambdaDoc">>, <<"ListDoc", "ListDoc">>,
     <<"ListDoc", "TupleDoc">>, <<"DictDoc", "DictDoc">>,
     <<"SliceDoc", "SliceDoc">>, <<"StmtBlockDoc", "StmtBlockDoc">>,
     <<"AssignDoc", "AssignDoc">>, <<"IfDoc", "IfDoc">>,
     <<"WhileDoc", "WhileDoc">>, <<"ForDoc", "ForDoc">>,
     <<"ScopeDoc", "ScopeDoc">>, <<"ExprStmtDoc", "ExprStmtDoc">>,
     <<"AssertDoc", "AssertDoc">>, <<"ReturnDoc", "ReturnDoc">>,
     <<"FunctionDoc", "FunctionDoc">>, <<"ClassDoc", "ClassDoc">> >>

Arms ==
  << <<"LiteralDoc", "LiteralDoc">>, <<"IdDoc", "IdDoc">>,
     <<"AttrAccessDoc", "AttrAccessDoc">>, <<"IndexDoc", "IndexDoc">>,
     <<"OperationDoc", "OperationDoc">>, <<"CallDoc", "CallDoc">>,
     <<"LambdaDoc", "LambdaDoc">>, <<"ListDoc", "ListDoc">>,
     <<"TupleDoc", "TupleDoc">>, <<"DictDoc", "DictDoc">>,
     <<"SliceDoc", "SliceDoc">>, <<"StmtBlockDoc", "StmtBlockDoc">>,
     <<"AssignDoc", "AssignDoc">>, <<"IfDoc", "IfDoc">>,
     <<"WhileDoc", "WhileDoc">>, <<"ForDoc", "ForDoc">>,
     <<"ScopeDoc", "ScopeDoc">>, <<"ExprStmtDoc", "ExprStmtDoc">>,
     <<"AssertDoc", "AssertDoc">>, <<"ReturnDoc", "ReturnDoc">>,
     <<"FunctionDoc", "FunctionDoc">>, <<"ClassDoc", "ClassDoc">> >>

\* Index of the first arm of the cascade whose type test succeeds, 0 when
\* every test fails (the final else branch).
DispatchArm(type_key) ==
  IF \E i \in 1..Len(Arms) : Arms[i][1] = type_key
  THEN CHOOSE i \in 1..Len(Arms) :
         /\ Arms[i][1] = type_key
         /\ \A j \in 1..(i - 1) : Arms[j][1] # type_key
  ELSE 0

\* Kinds that have no arm in the cascade.
UnknownKinds == {"CommentDoc", "SyntheticDoc"}

IdX == Leaf("IdDoc", <<"x">>)

Lit1 == Leaf("LiteralDoc", <<"1">>)

NewlineStmt == Leaf("ExprStmtDoc", <<NL>>)

EmptyBlock == Leaf("StmtBlockDoc", <<>>)

AssignX1 == Tree("AssignDoc", <<>>, <<IdX, Lit1>>, <<NL>>)

BlockIfAssign ==
  Tree("StmtBlockDoc", <<>>,
       << Tree("IfDoc", <<"1">>, << Leaf("AssignDoc", <<"x">>) >>, <<NL>>) >>,
       <<>>)

BlockWithUnknown ==
  Tree("StmtBlockDoc", <<>>, <<IdX, Leaf("SyntheticDoc", <<"1">>), Lit1>>, <<NL>>)

KindLeaves == {Leaf(k, <<"x">>) : k \in ClosedKindSet \cup UnknownKinds}

Docs ==
  KindLeaves \cup
  {IdX, Lit1, NewlineStmt, EmptyBlock, AssignX1, BlockIfAssign, BlockWithUnknown}

TwoDocs == {IdX, BlockIfAssign}

LiveDocs ==
  {IdX, Lit1, EmptyBlock, AssignX1, BlockIfAssign, BlockWithUnknown,
   Leaf("ClassDoc", <<"x">>), Leaf("SyntheticDoc", <<"x">>)}

(* ------------------------------------------------------------ the printer *)
Last(t) == t[Len(t)]

Normalized(t) == IF t = <<>> \/ Last(t) = NL THEN t ELSE t \o <<NL>>

Frame(doc) == [doc |-> doc, pc |-> "PrintDoc", i |-> 0]

Top(p) == stack[p][Len(stack[p])]

Pop(s) == SubSeq(s, 1, Len(s) - 1)

SetTop(s, f) == [s EXCEPT ![Len(s)] = f]

NoResult == [text |-> <<>>, after |-> -1]

\* DocPrinter::DocPrinter(int indent_spaces)
InitFor(P) ==
  /\ indent_spaces_ \in [P -> IndentChoices]
  /\ output_ = [p \in P |-> <<>>]
  /\ stack = [p \in P |-> <<>>]
  /\ status = [p \in P |-> "idle"]
  /\ diag = [p \in P |-> <<>>]
  /\ calls = [p \in P |-> <<>>]
  /\ appended = [p \in P |-> <<>>]
  /\ returned = [p \in P |-> NoResult]

Init == InitFor(OnePrinter)

\* Append that resets the stream before printing.
AppendDoc_Reset(p, doc) ==
  /\ stack[p] = <<>>
  /\ status[p] = "idle"
  /\ Len(appended[p]) < MaxAppends
  /\ appended' = [appended EXCEPT ![p] = Append(@, doc)]
  /\ stack' = [stack EXCEPT ![p] = <<Frame(doc)>>]
  /\ status' = [status EXCEPT ![p] = "running"]
  /\ output_' = [output_ EXCEPT ![p] = <<>>]
  /\ UNCHANGED <<indent_spaces_, diag, calls, returned>>

\* void DocPrinter::Append(const Doc& doc) { PrintDoc(doc); }
AppendDoc(p, doc) ==
  /\ stack[p] = <<>>
  /\ status[p] = "idle"
  /\ Len(appended[p]) < MaxAppends
  /\ appended' = [appended EXCEPT ![p] = Append(@, doc)]
  /\ stack' = [stack EXCEPT ![p] = <<Frame(doc)>>]
  /\ status' = [status EXCEPT ![p] = "running"]
  /\ UNCHANGED <<output_, indent_spaces_, diag, calls, returned>>

\* A matched arm that also writes a separator to the stream.
PrintDocMatched_Separator(p, arm) ==
  /\ calls' = [calls EXCEPT ![p] = Append(@, [op |-> Arms[arm][2], doc |-> Top(p).doc])]
  /\ stack' = [stack EXCEPT ![p] = SetTop(@, [Top(p) EXCEPT !.pc = "PrintTypedDoc"])]
  /\ output_' = [output_ EXCEPT ![p] = Append(@, NL)]
  /\ UNCHANGED <<indent_spaces_, status, diag, appended, returned>>

\* A matched arm for IfDoc that calls PrintDoc on the same node again, so the
\* call never gets past the cascade.
PrintDocMatched_Redispatch(p, arm) ==
  IF Arms[arm][1] = "IfDoc"
  THEN UNCHANGED vars
  ELSE /\ calls' = [calls EXCEPT ![p] = Append(@, [op |-> Arms[arm][2], doc |-> Top(p).doc])]
       /\ stack' = [stack EXCEPT ![p] = SetTop(@, [Top(p) EXCEPT !.pc = "PrintTypedDoc"])]
       /\ UNCHANGED <<output_, indent_spaces_, status, diag, appended, returned>>

\* PrintDoc, an arm whose type test succeeded (lines 39-82): PrintTypedDoc
\* is called once, with the node cast to the arm's reference type.
PrintDocMatched(p, arm) ==
  /\ calls' = [calls EXCEPT ![p] = Append(@, [op |-> Arms[arm][2], doc |-> Top(p).doc])]
  /\ stack' = [stack EXCEPT ![p] = SetTop(@, [Top(p) EXCEPT !.pc = "PrintTypedDoc"])]
  /\ UNCHANGED <<output_, indent_spaces_, status, diag, appended, returned>>

\* A final else branch that returns without reporting anything.
PrintDocFatal_SilentSkip(p) ==
  /\ stack' = [stack EXCEPT ![p] = Pop(@)]
  /\ status' = [status EXCEPT ![p] = IF Len(stack[p]) = 1 THEN "idle" ELSE @]
  /\ UNCHANGED <<output_, indent_spaces_, diag, calls, appended, returned>>

\* PrintDoc, the final else branch (lines 83-86): LOG(FATAL) names the type
\* key and leaves every active call of this printer.
PrintDocFatal(p) ==
  /\ status' = [status EXCEPT ![p] = "fatal"]
  /\ diag' = [diag EXCEPT ![p] = <<"Do not know how to print ", Top(p).doc.type_key>>]
  /\ stack' = [stack EXCEPT ![p] = <<>>]
  /\ UNCHANGED <<output_, indent_spaces_, calls, appended, returned>>

\* void DocPrinter::PrintDoc(const Doc& doc)
PrintDoc(p) ==
  /\ stack[p] # <<>>
  /\ Top(p).pc = "PrintDoc"
  /\ IF DispatchArm(Top(p).doc.type_key) # 0
     THEN PrintDocMatched(p, DispatchArm(Top(p).doc.type_key))
     ELSE PrintDocFatal(p)

\* PrintTypedDoc, first part: the rendering operation writes the node's
\* opening text to output_.
RenderOpen(p) ==
  /\ stack[p] # <<>>
  /\ Top(p).pc = "PrintTypedDoc"
  /\ Top(p).i = 0
  /\ output_' = [output_ EXCEPT ![p] = @ \o Top(p).doc.text]
  /\ stack' = [stack EXCEPT ![p] = SetTop(@, [Top(p) EXCEPT !.i = 1])]
  /\ UNCHANGED <<indent_spaces_, status, diag, calls, appended, returned>>

\* PrintTypedDoc, middle part: the rendering operation dispatches the next
\* child of its node through PrintDoc.
RenderChild(p) ==
  /\ stack[p] # <<>>
  /\ Top(p).pc = "PrintTypedDoc"
  /\ Top(p).i \in 1..Len(Top(p).doc.children)
  /\ stack' = [stack EXCEPT ![p] =
                 Append(SetTop(@, [Top(p) EXCEPT !.i = @ + 1]),
                        Frame(Top(p).doc.children[Top(p).i]))]
  /\ UNCHANGED <<output_, indent_spaces_, status, diag, calls, appended, returned>>

\* PrintTypedDoc, last part: the rendering operation writes the node's
\* closing text and returns to its caller.
RenderClose(p) ==
  /\ stack[p] # <<>>
  /\ Top(p).pc = "PrintTypedDoc"
  /\ Top(p).i = Len(Top(p).doc.children) + 1
  /\ output_' = [output_ EXCEPT ![p] = @ \o Top(p).doc.close]
  /\ stack' = [stack EXCEPT ![p] = Pop(@)]
  /\ status' = [status EXCEPT ![p] = IF Len(stack[p]) = 1 THEN "idle" ELSE @]
  /\ UNCHANGED <<indent_spaces_, diag, calls, appended, returned>>

\* GetString without the !text.empty() test.
GetStringText_NoEmptyCheck(text) ==
  IF text = <<>> \/ text[Len(text)] # NL
  THEN Append(text, NL)
  ELSE text

\* GetString without the text.back() != '\n' test.
GetStringText_AlwaysNewline(text) ==
  IF text # <<>>
  THEN Append(text, NL)
  ELSE text

\* The body of GetString on the copy text = output_.str().
GetStringText(text) ==
  IF text # <<>> /\ text[Len(text)] # NL
  THEN Append(text, NL)
  ELSE text

\* GetString that stores the normalized text back into the stream.
GetString_WriteBack(p) ==
  /\ stack[p] = <<>>
  /\ returned' = [returned EXCEPT ![p] =
                    [text |-> GetStringText(output_[p]), after |-> Len(appended[p])]]
  /\ output_' = [output_ EXCEPT ![p] = GetStringText(output_[p])]
  /\ UNCHANGED <<indent_spaces_, stack, status, diag, calls, appended>>

\* GetString that empties the stream after reading it.
GetString_Flush(p) ==
  /\ stack[p] = <<>>
  /\ returned' = [returned EXCEPT ![p] =
                    [text |-> GetStringText(output_[p]), after |-> Len(appended[p])]]
  /\ output_' = [output_ EXCEPT ![p] = <<>>]
  /\ UNCHANGED <<indent_spaces_, stack, status, diag, calls, appended>>

\* GetString that reads one stream shared by all instances.
GetString_SharedBuffer(p) ==
  /\ stack[p] = <<>>
  /\ returned' = [returned EXCEPT ![p] =
                    [text |-> GetStringText(output_[1]), after |-> Len(appended[p])]]
  /\ UNCHANGED <<output_, indent_spaces_, stack, status, diag, calls, appended>>

\* String DocPrinter::GetString() const
GetString(p) ==
  /\ stack[p] = <<>>
  /\ returned' = [returned EXCEPT ![p] =
                    [text |-> GetStringText(output_[p]), after |-> Len(appended[p])]]
  /\ UNCHANGED <<output_, indent_spaces_, stack, status, diag, calls, appended>>

Step(p) == PrintDoc(p) \/ RenderOpen(p) \/ RenderChild(p) \/ RenderClose(p)

Next ==
  \/ \E p \in DOMAIN output_ : \E doc \in Docs : AppendDoc(p, doc)
  \/ \E p \in DOMAIN output_ : PrintDoc(p)
  \/ \E p \in DOMAIN output_ : RenderOpen(p)
  \/ \E p \in DOMAIN output_ : RenderChild(p)
  \/ \E p \in DOMAIN output_ : RenderClose(p)
  \/ \E p \in DOMAIN output_ : GetString(p)

Spec == Init /\ [][Next]_vars

\* One printer fed leaves and nested trees; the synchronous code keeps
\* executing once Append has been entered.
NextLive ==
  \/ \E p \in DOMAIN output_ : \E doc \in LiveDocs : AppendDoc(p, doc)
  \/ \E p \in DOMAIN output_ : PrintDoc(p)
  \/ \E p \in DOMAIN output_ : RenderOpen(p)
  \/ \E p \in DOMAIN output_ : RenderChild(p)
  \/ \E p \in DOMAIN output_ : RenderClose(p)
  \/ \E p \in DOMAIN output_ : GetString(p)

FairSpec == Init /\ [][NextLive]_vars /\ \A p \in OnePrinter : WF_vars(Step(p))

\* Two printer instances, used from two contexts that interleave freely.
InitTwo == InitFor(TwoPrinters)

NextTwo ==
  \/ \E p \in DOMAIN output_ : \E doc \in TwoDocs : AppendDoc(p, doc)
  \/ \E p \in DOMAIN output_ : PrintDoc(p)
  \/ \E p \in DOMAIN output_ : RenderOpen(p)
  \/ \E p \in DOMAIN output_ : RenderChild(p)
  \/ \E p \in DOMAIN output_ : RenderClose(p)
  \/ \E p \in DOMAIN output_ : GetString(p)

SpecTwo == InitTwo /\ [][NextTwo]_vars

\* GetString as a function of the buffer: the printer has rendered one
\* identifier node whose name is any text of at most MaxBufLen characters.
Texts(n) == UNION {[1..k -> Alphabet] : k \in 0..n}

InitBuf ==
  /\ indent_spaces_ \in [OnePrinter -> IndentChoices]
  /\ \E b \in Texts(MaxBufLen) :
       /\ output_ = [p \in OnePrinter |-> b]
       /\ appended = [p \in OnePrinter |-> <<Leaf("IdDoc", b)>>]
       /\ calls = [p \in OnePrinter |-> <<[op |-> "IdDoc", doc |-> Leaf("IdDoc", b)]>>]
  /\ stack = [p \in OnePrinter |-> <<>>]
  /\ status = [p \in OnePrinter |-> "idle"]
  /\ diag = [p \in OnePrinter |-> <<>>]
  /\ returned = [p \in OnePrinter |-> NoResult]

NextBuf == \E p \in DOMAIN output_ : GetString(p)

SpecBuf == InitBuf /\ [][NextBuf]_vars

(* ---------------------------------------------- what the renderer produces *)
RECURSIVE Rendered(_), RenderedAll(_)

\* The text one node renders to: opening text, children in order, closing text.
Rendered(d) == d.text \o RenderedAll(d.children) \o d.close

RenderedAll(ds) ==
  IF ds = <<>> THEN <<>> ELSE Rendered(Head(ds)) \o RenderedAll(Tail(ds))

RECURSIVE PreOrder(_), PreOrderAll(_)

\* The rendering operations entered for one node: its own, then its children's.
PreOrder(d) == <<[op |-> d.type_key, doc |-> d]>> \o PreOrderAll(d.children)

PreOrderAll(ds) ==
  IF ds = <<>> THEN <<>> ELSE PreOrder(Head(ds)) \o PreOrderAll(Tail(ds))

RECURSIVE AllKnown(_)

AllKnown(d) ==
  /\ d.type_key \in ClosedKindSet
  /\ \A i \in 1..Len(d.children) : AllKnown(d.children[i])

IsPrefix(s, t) == Len(s) <= Len(t) /\ SubSeq(t, 1, Len(s)) = s

RECURSIVE TrailingNewlines(_)

TrailingNewlines(t) ==
  IF t = <<>> \/ Last(t) # NL THEN 0 ELSE 1 + TrailingNewlines(SubSeq(t, 1, Len(t) - 1))

Ops(cs) == [i \in 1..Len(cs) |-> cs[i].op]

\* Printer p is about to run the type cascade on the node of its top frame.
Dispatching(p) == stack[p] # <<>> /\ Top(p).pc = "PrintDoc"

\* The text GetString last returned on p was computed from the documents
\* that had been appended without failure.
ReturnedOfAppended(p) ==
  /\ returned[p].after >= 0
  /\ ~(status[p] = "fatal" /\ returned[p].after = Len(appended[p]))

(* ------------------------------------------------------------------ claims *)

\* C1: dispatching a node of any of the 22 known kinds never takes the fatal
\* path and invokes exactly the rendering operation of that kind, once, on
\* that node; a single leaf of a known kind appended alone has caused exactly
\* one rendering call.
C1_KnownKindDispatch ==
  /\ [][\A p \in DOMAIN stack :
          (Dispatching(p) /\ Top(p).doc.type_key \in ClosedKindSet /\ stack'[p] # stack[p])
            => /\ status'[p] # "fatal"
               /\ calls'[p] = Append(calls[p], [op |-> Top(p).doc.type_key, doc |-> Top(p).doc])
               /\ Len(stack'[p]) = Len(stack[p])]_vars
  /\ [](\A p \in DOMAIN stack :
          (/\ status[p] = "idle"
           /\ Len(appended[p]) = 1
           /\ appended[p][1].children = <<>>
           /\ appended[p][1].type_key \in ClosedKindSet)
            => calls[p] = <<[op |-> appended[p][1].type_key, doc |-> appended[p][1]]>>)

C1_Witness ==
  \E p \in DOMAIN stack :
    /\ status[p] = "idle"
    /\ appended[p] = <<Leaf("ClassDoc", <<"x">>)>>
    /\ calls[p] = <<[op |-> "ClassDoc", doc |-> Leaf("ClassDoc", <<"x">>)]>>

\* C2: dispatching a node whose kind is outside the known set enters the
\* fatal state with a diagnostic naming the kind, invokes no rendering
\* operation and leaves the buffer as it was; once fatal, the printer renders
\* nothing more.
C2_UnknownKindFatal ==
  /\ [][\A p \in DOMAIN stack :
          (Dispatching(p) /\ Top(p).doc.type_key \notin ClosedKindSet /\ stack'[p] # stack[p])
            => /\ status'[p] = "fatal"
               /\ diag'[p] = <<"Do not know how to print ", Top(p).doc.type_key>>
               /\ calls'[p] = calls[p]
               /\ output_'[p] = output_[p]]_vars
  /\ [][\A p \in DOMAIN stack :
          status[p] = "fatal"
            => /\ status'[p] = "fatal"
               /\ stack'[p] = <<>>
               /\ calls'[p] = calls[p]
               /\ output_'[p] = output_[p]]_vars

C2_Witness ==
  \E p \in DOMAIN stack :
    /\ status[p] = "fatal"
    /\ appended[p] = <<BlockWithUnknown>>
    /\ diag[p] = <<"Do not know how to print ", "SyntheticDoc">>
    /\ Ops(calls[p]) = <<"StmtBlockDoc", "IdDoc">>
    /\ output_[p] = <<"x">>

\* C3: GetString returns the empty text for an empty buffer, the buffer
\* itself when it ends in a newline, and the buffer followed by exactly one
\* newline otherwise.
C3_GetStringCases ==
  [][\A p \in DOMAIN output_ :
       returned'[p] # returned[p]
         => LET b == output_[p]
                r == returned'[p].text
            IN /\ b = <<>> => r = <<>>
               /\ (b # <<>> /\ Last(b) = NL) => r = b
               /\ (b # <<>> /\ Last(b) # NL)
                    => /\ Len(r) = Len(b) + 1
                       /\ SubSeq(r, 1, Len(b)) = b
                       /\ r[Len(r)] = NL]_vars

C3_Witness ==
  \E p \in DOMAIN output_ :
    /\ output_[p] = <<"x", NL, "1">>
    /\ returned[p].after = 1
    /\ returned[p].text = <<"x", NL, "1", NL>>

\* C4 as stated: every non-empty text GetString returns ends in exactly one
\* newline.
C4_ExactlyOneTrailingNewline ==
  \A p \in DOMAIN output_ :
    returned[p].text # <<>>
      => /\ Last(returned[p].text) = NL
         /\ Len(returned[p].text) >= 2 => returned[p].text[Len(returned[p].text) - 1] # NL

\* C4 amended: for a non-empty buffer the returned text ends in a newline and
\* has as many trailing newlines as the buffer, or one when the buffer has
\* none; trailing newlines already in the buffer are kept, not collapsed.
C4_TrailingNewlinesKept ==
  [][\A p \in DOMAIN output_ :
       (returned'[p] # returned[p] /\ output_[p] # <<>>)
         => /\ returned'[p].text # <<>>
            /\ Last(returned'[p].text) = NL
            /\ TrailingNewlines(returned'[p].text) =
                 (IF TrailingNewlines(output_[p]) = 0 THEN 1 ELSE TrailingNewlines(output_[p]))]_vars

C4_Witness ==
  \E p \in DOMAIN output_ :
    /\ appended[p] = <<NewlineStmt, NewlineStmt>>
    /\ returned[p].after = 2
    /\ returned[p].text = <<NL, NL>>

\* C5: GetString leaves the buffer unchanged, and every text it returns is
\* the normalization of the rendered texts of the documents appended so far,
\* joined directly, whatever GetString calls came in between.
C5_GetStringPureRead ==
  /\ [][\A p \in DOMAIN output_ :
          returned'[p] # returned[p] => output_'[p] = output_[p]]_vars
  /\ [](\A p \in DOMAIN output_ :
          ReturnedOfAppended(p)
            => returned[p].text =
                 Normalized(RenderedAll(SubSeq(appended[p], 1, returned[p].after))))

C5_Witness ==
  \E p \in DOMAIN output_ :
    /\ appended[p] = <<Lit1, IdX>>
    /\ status[p] = "idle"
    /\ returned[p] = [text |-> <<"1", NL>>, after |-> 1]
    /\ output_[p] = <<"1", "x">>

\* C6: whenever no Append is in progress the buffer is the concatenation of
\* the rendered texts of the appended documents, in the order of the Append
\* calls; identifier x then literal 1 gives GetString() = "x1\n".
C6_SiblingOrder ==
  \A p \in DOMAIN output_ :
    /\ status[p] = "idle" => output_[p] = RenderedAll(appended[p])
    /\ (appended[p] = <<IdX, Lit1>> /\ returned[p].after = 2)
         => returned[p].text = <<"x", "1", NL>>

C6_Witness ==
  \E p \in DOMAIN output_ :
    /\ appended[p] = <<IdX, Lit1>>
    /\ returned[p].after = 2
    /\ returned[p].text = <<"x", "1", NL>>

\* C7: the dispatch step changes neither the buffer nor the depth of the
\* traversal; the buffer changes only while a rendering operation is
\* executing; a nested node is dispatched only from the rendering operation
\* of its parent; and the rendering operations are entered in pre-order.
C7_DispatcherWritesNothing ==
  /\ [][\A p \in DOMAIN stack :
          /\ (Dispatching(p) /\ stack'[p] # stack[p])
               => (output_'[p] = output_[p] /\ Len(stack'[p]) <= Len(stack[p]))
          /\ (stack[p] = <<>> /\ stack'[p] # <<>>)
               => (output_'[p] = output_[p] /\ Len(stack'[p]) = 1)
          /\ output_'[p] # output_[p]
               => (stack[p] # <<>> /\ Top(p).pc = "PrintTypedDoc")
          /\ (stack[p] # <<>> /\ Len(stack'[p]) > Len(stack[p]))
               => /\ Top(p).pc = "PrintTypedDoc"
                  /\ Len(stack'[p]) = Len(stack[p]) + 1
                  /\ \E i \in 1..Len(Top(p).doc.children) :
                       stack'[p][Len(stack'[p])].doc = Top(p).doc.children[i]]_vars
  /\ [](\A p \in DOMAIN stack :
          status[p] = "idle" => calls[p] = PreOrderAll(appended[p]))

C7_Witness ==
  \E p \in DOMAIN stack :
    /\ status[p] = "idle"
    /\ appended[p] = <<BlockIfAssign>>
    /\ Ops(calls[p]) = <<"StmtBlockDoc", "IfDoc", "AssignDoc">>
    /\ output_[p] = <<"1", "x", NL>>

\* C8: the buffer of a new printer is empty, and every step leaves the old
\* buffer content as a prefix of the new one.
C8_AppendOnly ==
  /\ \A p \in DOMAIN output_ : output_[p] = <<>>
  /\ [][\A p \in DOMAIN output_ : IsPrefix(output_[p], output_'[p])]_vars

C8_Witness ==
  \E p \in DOMAIN output_ :
    /\ appended[p] = <<AssignX1, IdX>>
    /\ returned[p] = [text |-> <<"x", "1", NL>>, after |-> 1]
    /\ output_[p] = <<"x", "1", NL, "x">>

\* C9: an Append of a tree of known kinds eventually returns, with every
\* node of the tree dispatched.
C9_AppendCompletes ==
  \A p \in OnePrinter :
    (status[p] = "running" /\ AllKnown(appended[p][Len(appended[p])]))
      ~> (status[p] = "idle" /\ stack[p] = <<>> /\ calls[p] = PreOrderAll(appended[p]))

C9_Witness ==
  \E p \in DOMAIN stack :
    /\ status[p] = "idle"
    /\ appended[p] = <<AssignX1, BlockIfAssign>>
    /\ Len(calls[p]) = 6

\* C10: a step of one printer changes neither the buffer nor the indentation
\* width of another, and the text a printer returns is determined by the
\* documents appended to that printer alone.
C10_InstancesIndependent ==
  /\ [][\A p, q \in DOMAIN output_ :
          (p # q /\ (stack'[p] # stack[p] \/ returned'[p] # returned[p]))
            => /\ output_'[q] = output_[q]
               /\ indent_spaces_'[q] = indent_spaces_[q]
               /\ returned'[q] = returned[q]]_vars
  /\ [](\A p \in DOMAIN output_ :
          /\ ReturnedOfAppended(p)
               => returned[p].text =
                    Normalized(RenderedAll(SubSeq(appended[p], 1, returned[p].after)))
          /\ status[p] = "idle" => output_[p] = RenderedAll(appended[p]))

C10_Witness ==
  /\ appended[1] = <<IdX>>
  /\ appended[2] = <<BlockIfAssign, IdX>>
  /\ returned[1] = [text |-> <<"x", NL>>, after |-> 1]
  /\ returned[2] = [text |-> <<"1", "x", NL>>, after |-> 1]
  /\ output_[2] = <<"1", "x", NL, "x">>
  /\ indent_spaces_[1] # indent_spaces_[2]

====
